---- MODULE Spec2Model ----
(***************************************************************************)
(* A model of api/storage/elasticsearch/elasticsearch.go: the connection   *)
(* bootstrap of NewStorageManager, the write path (Save, createIndex) and  *)
(* the three read operations GetSummary, GetExecutions and GetResources.   *)
(*                                                                         *)
(* The Elasticsearch client is an external collaborator.  Its answers are  *)
(* nondeterministic inputs: a call either yields a result and a nil error, *)
(* or a nil result and an error (the client never returns both).           *)
(* Strings whose characters matter (execution identifiers) are sequences   *)
(* of one-character strings.                                               *)
(***************************************************************************)
EXTENDS Integers, Sequences, FiniteSets, TLC

(* Bounds of the model. *)
MaxHits == 3
MaxIdLen == 4
MaxEvents == 3
MaxLimit == 2

(* Program constants: time.Sleep(5 * time.Second), time.After(60 * time.Second). *)
RetryInterval == 5
Deadline == 60

VARIABLES
    clock,        \* seconds since NewStorageManager was entered
    gpc,          \* position of the connecting goroutine
    wake,         \* when the goroutine's current/last time.Sleep ends
    esclient,     \* the captured variable esclient
    c,            \* number of values buffered in channel c (capacity 1)
    mpc,          \* position of NewStorageManager itself
    sm,           \* the StorageManager returned, NoManager before that
    indices,      \* the store: index name -> "absent" | "keyword" | "dynamic"
    docs,         \* the store: documents indexed in the default index
    provisioned,  \* index names createIndex has been run for
    filters,      \* the caller's filters map handed to GetSummary
    call,         \* the last read call: its arguments and the store's answers
    ret           \* what the last operation returned

vars == <<clock, gpc, wake, esclient, c, mpc, sm, indices, docs, provisioned,
          filters, call, ret>>

bootVars == <<clock, gpc, wake, esclient, c, mpc, sm>>
storeVars == <<indices, docs, provisioned>>
readVars == <<filters, call>>

----------------------------------------------------------------------------
(* Values *)

conf == [Index |-> "finala"]
IndexNames == {"finala", "general"}

NoClient == "nil"
Client == "client"
NoManager == [client |-> NoClient, defaultIndex |-> ""]

NoRet == [op |-> "none"]
NoCall == [op |-> "none"]

EmptyMap == [k \in {} |-> ""]

(* m with key k set to v: the Go statement m[k] = v. *)
SetKey(m, k, v) == [x \in DOMAIN m \cup {k} |-> IF x = k THEN v ELSE m[x]]

----------------------------------------------------------------------------
(* NewStorageManager: the connecting goroutine and the select. *)

(* getESClient: elastic.NewClient yields a client, or no client and an error. *)
getESClient ==
    {[client |-> Client, err |-> FALSE], [client |-> NoClient, err |-> TRUE]}

(* One attempt of the goroutine's loop completes: break on success,       *)
(* otherwise log and sleep RetryInterval.                                  *)
Connect ==
    /\ mpc = "select"
    /\ gpc = "connect"
    /\ \E r \in getESClient :
          /\ esclient' = r.client
          /\ IF r.err
                THEN gpc' = "sleep" /\ wake' = clock + RetryInterval
                ELSE gpc' = "send" /\ wake' = wake
    /\ UNCHANGED <<clock, c, mpc, sm, storeVars, readVars, ret>>

(* time.Sleep returns and the loop starts its next attempt. *)
Wake ==
    /\ mpc = "select"
    /\ gpc = "sleep"
    /\ clock >= wake
    /\ gpc' = "connect"
    /\ UNCHANGED <<clock, wake, esclient, c, mpc, sm, storeVars, readVars, ret>>

(* c <- 1 on the buffered channel: never blocks. *)
Send ==
    /\ mpc = "select"
    /\ gpc = "send"
    /\ c < 1
    /\ c' = c + 1
    /\ gpc' = "done"
    /\ UNCHANGED <<clock, wake, esclient, mpc, sm, storeVars, readVars, ret>>

(* The select when it does not wait for the channel. *)
Receive_NoWait ==
    /\ mpc = "select"
    /\ c' = 0
    /\ sm' = [client |-> esclient, defaultIndex |-> conf.Index]
    /\ mpc' = "returned"
    /\ UNCHANGED <<clock, gpc, wake, esclient, storeVars, readVars, ret>>

(* select, case <-c: build and return the StorageManager. *)
Receive ==
    /\ mpc = "select"
    /\ c > 0
    /\ c' = c - 1
    /\ sm' = [client |-> esclient, defaultIndex |-> conf.Index]
    /\ mpc' = "returned"
    /\ UNCHANGED <<clock, gpc, wake, esclient, storeVars, readVars, ret>>

(* select, case <-time.After(60s): log.Fatal ends the process. *)
Timeout ==
    /\ mpc = "select"
    /\ clock >= Deadline
    /\ mpc' = "fatal"
    /\ UNCHANGED <<clock, gpc, wake, esclient, c, sm, storeVars, readVars, ret>>

(* One second passes.  A due sleep and a due timer are served before time *)
(* moves on; the clock is only of interest while the select is waiting.   *)
Tick ==
    /\ mpc = "select"
    /\ clock < Deadline
    /\ ~(gpc = "sleep" /\ clock >= wake)
    /\ clock' = clock + 1
    /\ UNCHANGED <<gpc, wake, esclient, c, mpc, sm, storeVars, readVars, ret>>

----------------------------------------------------------------------------
(* The write path. *)

(* The documents the model saves: service_status events. *)
StatusEvent(id, t) ==
    [EventType |-> "service_status", ExecutionID |-> id, EventTime |-> t]

(* Save: index one document in sm.defaultIndex; true iff the client       *)
(* reported no error.  The store creates a missing index on first write,  *)
(* with its default (dynamic) mapping.                                     *)
Save(data) ==
    /\ mpc = "returned"
    /\ \E err \in BOOLEAN :
          IF err
             THEN /\ ret' = [op |-> "Save", ok |-> FALSE]
                  /\ UNCHANGED <<indices, docs>>
             ELSE /\ ret' = [op |-> "Save", ok |-> TRUE]
                  /\ docs' = docs \cup {data}
                  /\ indices' = [indices EXCEPT ![sm.defaultIndex] =
                                    IF @ = "absent" THEN "dynamic" ELSE @]
    /\ UNCHANGED <<bootVars, provisioned, readVars>>

(* createIndex: IndexExists, then CreateIndex with indexMapping if absent. *)
(* Either call may fail; a failure is logged and nothing else happens.     *)
createIndex(index) ==
    /\ mpc = "returned"
    /\ \E existsErr \in BOOLEAN, createErr \in BOOLEAN :
          IF existsErr
             THEN UNCHANGED indices
             ELSE IF indices[index] # "absent"
                     THEN UNCHANGED indices
                     ELSE IF createErr
                             THEN UNCHANGED indices
                             ELSE indices' = [indices EXCEPT ![index] = "keyword"]
    /\ provisioned' = provisioned \cup {index}
    /\ UNCHANGED <<bootVars, docs, readVars, ret>>

----------------------------------------------------------------------------
(* The lifecycle specification: bootstrap, then writes and provisioning. *)

SaveData == {StatusEvent(<<"a", "_", "7">>, 10), StatusEvent(<<"b", "_", "7">>, 20)}

Init ==
    /\ clock = 0
    /\ gpc = "connect"
    /\ wake = 0
    /\ esclient = NoClient
    /\ c = 0
    /\ mpc = "select"
    /\ sm = NoManager
    /\ indices = [i \in IndexNames |-> "absent"]
    /\ docs = {}
    /\ provisioned = {}
    /\ filters = EmptyMap
    /\ call = NoCall
    /\ ret = NoRet

SaveAny == \E d \in SaveData : Save(d)

createIndexAny == \E i \in IndexNames : createIndex(i)

Next ==
    \/ Connect
    \/ Wake
    \/ Send
    \/ Receive
    \/ Timeout
    \/ Tick
    \/ SaveAny
    \/ createIndexAny

Spec == Init /\ [][Next]_vars

----------------------------------------------------------------------------
(* GetSummary *)

ResourceNames == {"ec2", "rds"}
EventTimes == {10, 20, 30}
StatusData == {[Status |-> 0, ErrorMessage |-> "boom"],
               [Status |-> 2, ErrorMessage |-> ""]}

(* storage.Summary: a decoded service_status document. *)
SummaryRows ==
    [ResourceName : ResourceNames, EventTime : EventTimes, Data : StatusData]

(* A search hit: its _source decodes into a storage.Summary, or does not. *)
SummaryHits ==
    [decodes : {TRUE}, source : SummaryRows]
        \cup {[decodes |-> FALSE,
               source |-> [ResourceName |-> "", EventTime |-> 0,
                           Data |-> [Status |-> 0, ErrorMessage |-> ""]]]}

RECURSIVE SeqsUpTo(_, _)
(* All sequences over S of length at most n. *)
SeqsUpTo(S, n) ==
    IF n = 0 THEN {<<>>}
    ELSE LET shorter == SeqsUpTo(S, n - 1)
         IN shorter \cup {Append(q, x) : q \in {r \in shorter : Len(r) = n - 1}, x \in S}

(* All orders in which the elements of S can be visited. *)
Orders(S) ==
    {q \in [1..Cardinality(S) -> S] : \A i, j \in 1..Cardinality(S) : i # j => q[i] # q[j]}

RECURSIVE Each(_)
(* searchResult.Each(reflect.TypeOf(summaryData)): the hits that decode, decoded. *)
Each(hits) ==
    IF hits = <<>> THEN <<>>
    ELSE IF Head(hits).decodes
            THEN <<Head(hits).source>> \o Each(Tail(hits))
            ELSE Each(Tail(hits))

(* The storage.CollectorsSummary built from a row; cost and count stay zero. *)
NewCollectorsSummary(row) ==
    [ResourceName |-> row.ResourceName,
     EventTime |-> row.EventTime,
     Status |-> row.Data.Status,
     ErrorMessage |-> row.Data.ErrorMessage,
     TotalSpent |-> 0,
     ResourceCount |-> 0]

(* The merge step without the comparison of event times. *)
MergeRow_NoCompare(summary, row) ==
    SetKey(summary, row.ResourceName, NewCollectorsSummary(row))

(* The merge step that never replaces a row already present. *)
MergeRow_KeepFirst(summary, row) ==
    IF row.ResourceName \in DOMAIN summary
       THEN summary
       ELSE SetKey(summary, row.ResourceName, NewCollectorsSummary(row))

(* One iteration of the merge loop: an older row than the one kept is     *)
(* skipped, any other row replaces it.                                     *)
MergeRow(summary, row) ==
    IF /\ row.ResourceName \in DOMAIN summary
       /\ row.EventTime < summary[row.ResourceName].EventTime
       THEN summary
       ELSE SetKey(summary, row.ResourceName, NewCollectorsSummary(row))

RECURSIVE MergeRows(_, _)
(* The merge loop over the decoded rows, in the order given. *)
MergeRows(summary, rows) ==
    IF rows = <<>> THEN summary
    ELSE MergeRows(MergeRow(summary, Head(rows)), Tail(rows))

(* The store's answers to the cost aggregation query.  The raw "value" of *)
(* the sum aggregation is JSON text; money is counted in tenths.          *)
DetailResponses ==
    {[err |-> TRUE,  nilResult |-> TRUE,  hasSum |-> FALSE, value |-> "null", total |-> 0],
     [err |-> FALSE, nilResult |-> FALSE, hasSum |-> TRUE,  value |-> "null", total |-> 0],
     [err |-> FALSE, nilResult |-> FALSE, hasSum |-> TRUE,  value |-> "12.5", total |-> 1]}

(* strconv.ParseFloat on the raw value, in tenths; 0 when it does not parse. *)
ParseFloat(raw) ==
    CASE raw = "12.5" -> [err |-> FALSE, val |-> 125]
      [] OTHER -> [err |-> TRUE, val |-> 0]

(* getResourceSummaryDetails on the store's answer resp.  The error       *)
(* branch reads searchResult.TookInMillis before it returns: with a nil   *)
(* searchResult that is a nil pointer dereference, a panic.               *)
getResourceSummaryDetails(resp) ==
    IF resp.err
       THEN [panic |-> resp.nilResult, err |-> TRUE, totalSpent |-> 0, resourceCount |-> 0]
       ELSE IF resp.hasSum
               THEN [panic |-> FALSE, err |-> FALSE,
                     totalSpent |-> ParseFloat(resp.value).val,
                     resourceCount |-> resp.total]
               ELSE [panic |-> FALSE, err |-> FALSE, totalSpent |-> 0, resourceCount |-> 0]

RECURSIVE ResourceLoop(_, _, _, _)
(* The loop over the summary's resource names, visited in `order`:        *)
(* filters["ResourceName"] is set, then the details are fetched; on an    *)
(* error the row is left alone, otherwise cost and count are stored.      *)
ResourceLoop(summary, flt, order, answers) ==
    IF order = <<>>
       THEN [summary |-> summary, filters |-> flt, panicked |-> FALSE]
       ELSE LET name == Head(order)
                flt2 == SetKey(flt, "ResourceName", name)
                r == getResourceSummaryDetails(answers[name])
            IN  IF r.panic
                   THEN [summary |-> summary, filters |-> flt2, panicked |-> TRUE]
                   ELSE IF r.err
                           THEN ResourceLoop(summary, flt2, Tail(order), answers)
                           ELSE ResourceLoop(
                                    [summary EXCEPT ![name].TotalSpent = r.totalSpent,
                                                    ![name].ResourceCount = r.resourceCount],
                                    flt2, Tail(order), answers)

(* The store's answers to the status query: an error, or up to MaxHits hits. *)
StatusResponses ==
    {[err |-> TRUE, hits |-> <<>>]}
        \cup {[err |-> FALSE, hits |-> h] : h \in SeqsUpTo(SummaryHits, MaxHits)}

(* GetSummary(executionID, filters): `flt` is the caller's map as handed  *)
(* in, the variable filters is that same map once the call is over.  The  *)
(* status query asks for at most 100 hits; the model hands in at most     *)
(* MaxHits.  The range over the summary map visits its keys in any order. *)
(* A caller makes one call at a time and takes the result (Done) before   *)
(* the next.                                                               *)
GetSummary(executionID, flt) ==
    /\ mpc = "returned"
    /\ ret = NoRet
    /\ \E resp \in StatusResponses :
          IF resp.err
             THEN /\ ret' = [op |-> "GetSummary", kind |-> "error", summary |-> EmptyMap]
                  /\ filters' = flt
                  /\ call' = [op |-> "GetSummary", executionID |-> executionID,
                              filters |-> flt, err |-> TRUE, hits |-> <<>>,
                              answers |-> EmptyMap]
             ELSE LET merged == MergeRows(EmptyMap, Each(resp.hits))
                  IN  \E order \in Orders(DOMAIN merged),
                         answers \in [DOMAIN merged -> DetailResponses] :
                         LET out == ResourceLoop(merged, flt, order, answers)
                         IN  /\ filters' = out.filters
                             /\ ret' = IF out.panicked
                                          THEN [op |-> "GetSummary", kind |-> "panic",
                                                summary |-> EmptyMap]
                                          ELSE [op |-> "GetSummary", kind |-> "ok",
                                                summary |-> out.summary]
                             /\ call' = [op |-> "GetSummary", executionID |-> executionID,
                                         filters |-> flt, err |-> FALSE,
                                         hits |-> resp.hits, answers |-> answers]
    /\ UNCHANGED <<bootVars, storeVars>>

(* The filters maps callers hand in. *)
FilterMaps ==
    {EmptyMap, [k \in {"Region"} |-> "us-east-1"], [k \in {"ResourceName"} |-> "elb"]}

(* The caller has consumed the result of a read and drops its arguments. *)
Done ==
    /\ ret # NoRet
    /\ ret' = NoRet
    /\ call' = NoCall
    /\ filters' = EmptyMap
    /\ UNCHANGED <<bootVars, storeVars>>

(* The state once NewStorageManager has returned a connected manager. *)
Connected ==
    /\ clock = 0
    /\ gpc = "done"
    /\ wake = 0
    /\ esclient = Client
    /\ c = 0
    /\ mpc = "returned"
    /\ sm = [client |-> Client, defaultIndex |-> conf.Index]
    /\ indices = [i \in IndexNames |-> "absent"]
    /\ docs = {}
    /\ provisioned = {}
    /\ filters = EmptyMap
    /\ call = NoCall
    /\ ret = NoRet

ExecutionIDs == {<<"a", "_", "7">>}

GetSummaryAny == \E e \in ExecutionIDs, f \in FilterMaps : GetSummary(e, f)

NextSummary ==
    \/ GetSummaryAny
    \/ Done

SpecSummary == Connected /\ [][NextSummary]_vars

(* The merge on its own: calls with no filters whose cost queries all     *)
(* succeed with the same answer.                                           *)
CostQueriesSucceed ==
    \A n \in DOMAIN call.answers : call.answers[n].value = "12.5"

GetSummaryMerge ==
    \E e \in ExecutionIDs : GetSummary(e, EmptyMap) /\ CostQueriesSucceed'

NextMerge ==
    \/ GetSummaryMerge
    \/ Done

SpecMerge == Connected /\ [][NextMerge]_vars

----------------------------------------------------------------------------
(* GetExecutions *)

Underscore == "_"
DigitChars == <<"0", "1", "2", "3", "4", "5", "6", "7", "8", "9">>
IsDigit(ch) == \E i \in 1..Len(DigitChars) : DigitChars[i] = ch
DigitValue(ch) == (CHOOSE i \in 1..Len(DigitChars) : DigitChars[i] = ch) - 1

RECURSIVE Split(_, _)
(* strings.Split(s, sep) for a one-character separator. *)
Split(s, sep) ==
    IF \A i \in 1..Len(s) : s[i] # sep
       THEN <<s>>
       ELSE LET k == CHOOSE i \in 1..Len(s) :
                        s[i] = sep /\ \A j \in 1..(i - 1) : s[j] # sep
            IN  <<SubSeq(s, 1, k - 1)>> \o Split(SubSeq(s, k + 1, Len(s)), sep)

RECURSIVE Join(_, _)
(* strings.Join(elems, sep). *)
Join(elems, sep) ==
    IF elems = <<>> THEN <<>>
    ELSE IF Len(elems) = 1 THEN elems[1]
    ELSE elems[1] \o <<sep>> \o Join(Tail(elems), sep)

RECURSIVE Decimal(_)
(* The value of a sequence of digits. *)
Decimal(digits) ==
    IF digits = <<>> THEN 0
    ELSE 10 * Decimal(SubSeq(digits, 1, Len(digits) - 1))
            + DigitValue(digits[Len(digits)])

(* strconv.ParseInt(s, 10, 64): an optional sign, then one or more digits. *)
(* Identifiers of the model are too short to leave the int64 range.        *)
ParseInt(s) ==
    LET signed == s # <<>> /\ s[1] \in {"+", "-"}
        digits == IF signed THEN Tail(s) ELSE s
    IN  IF digits = <<>> \/ \E i \in 1..Len(digits) : ~IsDigit(digits[i])
           THEN [err |-> TRUE, val |-> 0]
           ELSE [err |-> FALSE,
                 val |-> IF signed /\ s[1] = "-" THEN 0 - Decimal(digits)
                                                 ELSE Decimal(digits)]

(* The body of the loop over the bucket keys: the records (none or one)   *)
(* appended for one execution identifier.                                  *)
ExecutionOf(executionID) ==
    LET data == Split(executionID, Underscore)
        executionName == Join(SubSeq(data, 1, Len(data) - 1), Underscore)
        parsed == ParseInt(data[Len(data)])
    IN  IF parsed.err
           THEN <<>>
           ELSE <<[ID |-> executionID, Name |-> executionName, Time |-> parsed.val]>>

RECURSIVE ExecutionsOf_Prepend(_)
(* The loop over the keys when each record is put in front. *)
ExecutionsOf_Prepend(keys) ==
    IF keys = <<>> THEN <<>>
    ELSE ExecutionsOf_Prepend(Tail(keys)) \o ExecutionOf(Head(keys))

RECURSIVE ExecutionsOf(_)
(* The loop over the keys of one decoded bucket list, in order. *)
ExecutionsOf(keys) ==
    IF keys = <<>> THEN <<>>
    ELSE ExecutionOf(Head(keys)) \o ExecutionsOf(Tail(keys))

(* json.Unmarshal of the "ExecutionIDDesc" payload into orderedExecutionIDs: *)
(* on an error it is logged and the bucket list stays empty.                 *)
UnmarshalBuckets(payload) ==
    IF payload.wellFormed THEN payload.keys ELSE <<>>

RECURSIVE BucketsLoop(_)
(* The loop over the buckets of the "orderedExecutionID" aggregation. *)
BucketsLoop(buckets) ==
    IF buckets = <<>> THEN <<>>
    ELSE ExecutionsOf(UnmarshalBuckets(Head(buckets))) \o BucketsLoop(Tail(buckets))

(* The store's side of the query: the service_status documents, grouped   *)
(* by ExecutionID, ordered by the maximum EventTime descending, the first *)
(* queryLimit groups kept.  Groups of equal maximum come in any order.    *)
StatusDocs(d) == {x \in d : x.EventType = "service_status"}

ExecutionIDsOf(d) == {x.ExecutionID : x \in StatusDocs(d)}

MaxEventTime(d, id) ==
    LET times == {x.EventTime : x \in {y \in StatusDocs(d) : y.ExecutionID = id}}
    IN  CHOOSE t \in times : \A u \in times : u <= t

Min(a, b) == IF a <= b THEN a ELSE b

OrderedExecutionIDs(d, queryLimit) ==
    LET ids == ExecutionIDsOf(d)
        n == Min(queryLimit, Cardinality(ids))
    IN  {q \in [1..n -> ids] :
            /\ \A i, j \in 1..n : i < j => q[i] # q[j]
            /\ \A i, j \in 1..n : i < j => MaxEventTime(d, q[i]) >= MaxEventTime(d, q[j])
            /\ \A i \in 1..n : \A id \in ids :
                  (\A j \in 1..n : q[j] # id) => MaxEventTime(d, q[i]) >= MaxEventTime(d, id)}

(* The client's answers to the query: an error and no result; a result    *)
(* without the aggregation; the aggregation with its single filter bucket, *)
(* whose payload decodes or does not.                                      *)
ExecutionsResponses(d, queryLimit) ==
    {[err |-> TRUE, nilResult |-> TRUE, hasAgg |-> FALSE, buckets |-> <<>>],
     [err |-> FALSE, nilResult |-> FALSE, hasAgg |-> FALSE, buckets |-> <<>>],
     [err |-> FALSE, nilResult |-> FALSE, hasAgg |-> TRUE,
      buckets |-> <<[wellFormed |-> FALSE, keys |-> <<>>]>>]}
        \cup {[err |-> FALSE, nilResult |-> FALSE, hasAgg |-> TRUE,
               buckets |-> <<[wellFormed |-> TRUE, keys |-> q]>>] :
                 q \in OrderedExecutionIDs(d, queryLimit)}

(* GetExecutions(queryLimit).  The error branch reads                     *)
(* searchResult.TookInMillis before it returns: with a nil searchResult   *)
(* that is a nil pointer dereference, a panic.                            *)
GetExecutions(queryLimit) ==
    /\ mpc = "returned"
    /\ \E resp \in ExecutionsResponses(docs, queryLimit) :
          /\ call' = [op |-> "GetExecutions", limit |-> queryLimit, resp |-> resp]
          /\ ret' = IF resp.err
                       THEN IF resp.nilResult
                               THEN [op |-> "GetExecutions", kind |-> "panic",
                                     executions |-> <<>>]
                               ELSE [op |-> "GetExecutions", kind |-> "ok",
                                     executions |-> <<>>]
                       ELSE IF ~resp.hasAgg
                               THEN [op |-> "GetExecutions", kind |-> "ok",
                                     executions |-> <<>>]
                               ELSE [op |-> "GetExecutions", kind |-> "ok",
                                     executions |-> BucketsLoop(resp.buckets)]
    /\ UNCHANGED <<bootVars, storeVars, filters>>

(* Execution identifiers written by collectors, well formed and not. *)
ExecIDPool ==
    {<<"a", "_", "7">>, <<"a", "_", "b", "_", "9">>, <<"n", "o">>, <<"c", "_">>}

PoolEvents == {StatusEvent(id, t) : id \in ExecIDPool, t \in EventTimes}

SavePooled == \E d \in PoolEvents : Cardinality(docs) < MaxEvents /\ Save(d)

GetExecutionsAny == \E n \in 1..MaxLimit : GetExecutions(n)

NextExecutions ==
    \/ SavePooled
    \/ GetExecutionsAny

SpecExecutions == Connected /\ [][NextExecutions]_vars

(* Every identifier of at most MaxIdLen characters, alone in the store. *)
IdChars == {"a", "_", "7", "-"}

AllIds == SeqsUpTo(IdChars, MaxIdLen)

SaveFirst == \E id \in AllIds : docs = {} /\ Save(StatusEvent(id, 10))

NextDecompose ==
    \/ SaveFirst
    \/ GetExecutionsAny

SpecDecompose == Connected /\ [][NextDecompose]_vars

----------------------------------------------------------------------------
(* GetResources *)

(* The raw _source of a hit: a JSON object, or text that json.Unmarshal   *)
(* cannot decode into a map (truncated text, a JSON array).               *)
RawSources ==
    {[json |-> "object", doc |-> [k \in {"Id"} |-> "i-1"]],
     [json |-> "object", doc |-> [k \in {"Id"} |-> "i-2"]],
     [json |-> "truncated", doc |-> EmptyMap],
     [json |-> "array", doc |-> EmptyMap]}

(* json.Unmarshal(hit.Source, &rowData) into the fresh empty map rowData. *)
UnmarshalSource(source) ==
    IF source.json = "object"
       THEN [err |-> FALSE, rowData |-> source.doc]
       ELSE [err |-> TRUE, rowData |-> EmptyMap]

RECURSIVE HitsLoop(_)
(* The loop over the hits: a decode error is logged, and rowData is       *)
(* appended in either case.                                                *)
HitsLoop(hits) ==
    IF hits = <<>> THEN <<>>
    ELSE <<UnmarshalSource(Head(hits)).rowData>> \o HitsLoop(Tail(hits))

ResourcesResponses ==
    {[err |-> TRUE, hits |-> <<>>]}
        \cup {[err |-> FALSE, hits |-> h] : h \in SeqsUpTo(RawSources, MaxHits)}

GetResources(resourceType, executionID) ==
    /\ mpc = "returned"
    /\ \E resp \in ResourcesResponses :
          /\ call' = [op |-> "GetResources", resourceType |-> resourceType,
                      executionID |-> executionID, resp |-> resp]
          /\ ret' = IF resp.err
                       THEN [op |-> "GetResources", kind |-> "error", resources |-> <<>>]
                       ELSE [op |-> "GetResources", kind |-> "ok",
                             resources |-> HitsLoop(resp.hits)]
    /\ UNCHANGED <<bootVars, storeVars, filters>>

GetResourcesAny ==
    \E t \in ResourceNames, e \in ExecutionIDs : GetResources(t, e)

NextResources ==
    \/ GetResourcesAny

SpecResources == Connected /\ [][NextResources]_vars

----------------------------------------------------------------------------
(* Properties *)

(* The decoded rows of the last status query, and their resource names. *)
RowsSeen == Each(call.hits)
NamesSeen == {RowsSeen[i].ResourceName : i \in 1..Len(RowsSeen)}
LatestTime(n) ==
    LET times == {RowsSeen[i].EventTime : i \in {j \in 1..Len(RowsSeen) : RowsSeen[j].ResourceName = n}}
    IN  CHOOSE t \in times : \A u \in times : u <= t
SummaryReturned == ret.op = "GetSummary" /\ ret.kind = "ok"

(* C1: when GetSummary returns, the mapping has exactly one row per        *)
(* ResourceName among the status documents, the row's EventTime is the     *)
(* maximum EventTime of that resource's documents, and its Status and      *)
(* ErrorMessage are those of a document carrying that maximum.             *)
C1_MergeKeepsLatest ==
    SummaryReturned =>
        /\ DOMAIN ret.summary = NamesSeen
        /\ \A n \in NamesSeen :
              /\ ret.summary[n].ResourceName = n
              /\ ret.summary[n].EventTime = LatestTime(n)
              /\ \E i \in 1..Len(RowsSeen) :
                    /\ RowsSeen[i].ResourceName = n
                    /\ RowsSeen[i].EventTime = LatestTime(n)
                    /\ RowsSeen[i].Data.Status = ret.summary[n].Status
                    /\ RowsSeen[i].Data.ErrorMessage = ret.summary[n].ErrorMessage

(* GetSummary returned for three documents of one resource whose newest   *)
(* is neither the first nor the last encountered (times 10, 30, 20).      *)
C1_Witness ==
    /\ SummaryReturned
    /\ Len(RowsSeen) = 3
    /\ \A i \in 1..3 : RowsSeen[i].ResourceName = "ec2"
    /\ <<RowsSeen[1].EventTime, RowsSeen[2].EventTime, RowsSeen[3].EventTime>> = <<10, 30, 20>>
    /\ ret.summary["ec2"].EventTime = 30

(* C2 as claimed: when the cost query fails for some resources and        *)
(* succeeds for the others, GetSummary returns without error, every       *)
(* resource is present, a failing resource has TotalSpent 0 and           *)
(* ResourceCount 0, the others carry the store's sum and hit count.        *)
C2_PartialDegradation ==
    (/\ ret.op = "GetSummary"
     /\ ~call.err
     /\ \E n \in DOMAIN call.answers : call.answers[n].err
     /\ \E n \in DOMAIN call.answers : ~call.answers[n].err)
    =>
        /\ ret.kind = "ok"
        /\ DOMAIN ret.summary = NamesSeen
        /\ \A n \in DOMAIN ret.summary :
              IF call.answers[n].err
                 THEN ret.summary[n].TotalSpent = 0 /\ ret.summary[n].ResourceCount = 0
                 ELSE /\ ret.summary[n].TotalSpent =
                            (IF call.answers[n].value = "12.5" THEN 125 ELSE 0)
                      /\ ret.summary[n].ResourceCount = call.answers[n].total

(* C7 as claimed: a completed GetSummary leaves the caller's filters map  *)
(* with exactly the entries it had before the call.                       *)
C7_FiltersUntouched ==
    (ret.op = "GetSummary" /\ ret.kind \in {"ok", "error"}) => filters = call.filters

(* The hits of the last status query in the order given by q. *)
Permuted(q) == [i \in 1..Len(call.hits) |-> call.hits[q[i]]]
MergedIn(q) == MergeRows(EmptyMap, Each(Permuted(q)))
StatusOf(row) == <<row.EventTime, row.Status, row.ErrorMessage>>
(* The documents of resource n that carry its maximum EventTime agree on  *)
(* Status and ErrorMessage.                                                *)
LatestAgree(n) ==
    \A i, j \in 1..Len(RowsSeen) :
        (/\ RowsSeen[i].ResourceName = n /\ RowsSeen[i].EventTime = LatestTime(n)
         /\ RowsSeen[j].ResourceName = n /\ RowsSeen[j].EventTime = LatestTime(n))
        => RowsSeen[i].Data = RowsSeen[j].Data

(* C8 as claimed: the rows (EventTime, Status, ErrorMessage) are the same *)
(* for every order in which the documents are encountered.                *)
C8_OrderInsensitive ==
    SummaryReturned =>
        \A q \in Orders(1..Len(call.hits)) :
            LET merged == MergedIn(q)
            IN  /\ DOMAIN merged = DOMAIN ret.summary
                /\ \A n \in DOMAIN ret.summary :
                      StatusOf(merged[n]) = StatusOf(ret.summary[n])

(* C8 amended: for every order of the documents the rows have the same    *)
(* resource names and the same EventTime, and the same Status and         *)
(* ErrorMessage for every resource whose documents of maximum EventTime   *)
(* agree on them; among documents tied at the maximum the last one        *)
(* encountered is kept.                                                    *)
C8_OrderInsensitiveUpToTies ==
    SummaryReturned =>
        /\ \A q \in Orders(1..Len(call.hits)) :
              LET merged == MergedIn(q)
              IN  /\ DOMAIN merged = DOMAIN ret.summary
                  /\ \A n \in DOMAIN ret.summary :
                        /\ merged[n].EventTime = ret.summary[n].EventTime
                        /\ StatusOf(merged[n]) # StatusOf(ret.summary[n])
                              => ~LatestAgree(n)
        /\ \A n \in DOMAIN ret.summary :
              LET last == CHOOSE i \in 1..Len(RowsSeen) :
                              /\ RowsSeen[i].ResourceName = n
                              /\ RowsSeen[i].EventTime = LatestTime(n)
                              /\ \A j \in (i + 1)..Len(RowsSeen) :
                                    ~(RowsSeen[j].ResourceName = n
                                      /\ RowsSeen[j].EventTime = LatestTime(n))
              IN  /\ ret.summary[n].Status = RowsSeen[last].Data.Status
                  /\ ret.summary[n].ErrorMessage = RowsSeen[last].Data.ErrorMessage

(* GetSummary returned for documents of one resource in which a newer     *)
(* document with another status was encountered before an older one.      *)
C8_Witness ==
    /\ SummaryReturned
    /\ \E i, j \in 1..Len(RowsSeen) :
          /\ i < j
          /\ RowsSeen[i].ResourceName = RowsSeen[j].ResourceName
          /\ RowsSeen[i].EventTime > RowsSeen[j].EventTime
          /\ RowsSeen[i].Data # RowsSeen[j].Data
          /\ ret.summary[RowsSeen[i].ResourceName].Status = RowsSeen[i].Data.Status

ExecutionsReturned == ret.op = "GetExecutions" /\ ret.kind = "ok"

(* C3: GetExecutions(limit) returns at most limit records, in descending  *)
(* order of the maximum EventTime of the service_status events of their   *)
(* execution identifier; skipped identifiers only shorten the sequence.   *)
C3_LimitedAndDescending ==
    ExecutionsReturned =>
        LET ex == ret.executions
        IN  /\ Len(ex) <= call.limit
            /\ \A i \in 1..Len(ex) : ex[i].ID \in ExecutionIDsOf(docs)
            /\ \A i, j \in 1..Len(ex) :
                  i < j => /\ ex[i].ID # ex[j].ID
                           /\ MaxEventTime(docs, ex[i].ID) >= MaxEventTime(docs, ex[j].ID)

(* GetExecutions(2) on a store with three identifiers of distinct recency *)
(* returned two records, the more recent one first.                       *)
C3_Witness ==
    /\ ExecutionsReturned
    /\ call.limit = 2
    /\ Cardinality(ExecutionIDsOf(docs)) = 3
    /\ Len(ret.executions) = 2
    /\ MaxEventTime(docs, ret.executions[1].ID) > MaxEventTime(docs, ret.executions[2].ID)

(* The place of the final underscore of an identifier, 0 if it has none. *)
LastUnderscore(id) ==
    IF \A i \in 1..Len(id) : id[i] # Underscore
       THEN 0
       ELSE CHOOSE i \in 1..Len(id) :
               id[i] = Underscore /\ \A j \in (i + 1)..Len(id) : id[j] # Underscore
AfterLastUnderscore(id) == SubSeq(id, LastUnderscore(id) + 1, Len(id))
BeforeLastUnderscore(id) == SubSeq(id, 1, LastUnderscore(id) - 1)

(* C4 as claimed: an identifier with at least one `_` whose part after    *)
(* the final `_` parses as a base-10 integer yields exactly one record    *)
(* (ID the identifier, Name the part before the final `_`, Time the       *)
(* integer); any other identifier yields no record.                       *)
C4_Decomposition ==
    (/\ ExecutionsReturned
     /\ call.resp.hasAgg
     /\ call.resp.buckets[1].wellFormed)
    =>
        \A id \in ExecutionIDsOf(docs) :
            call.resp.buckets[1].keys = <<id>> =>
                IF LastUnderscore(id) > 0 /\ ~ParseInt(AfterLastUnderscore(id)).err
                   THEN ret.executions =
                            <<[ID |-> id,
                               Name |-> BeforeLastUnderscore(id),
                               Time |-> ParseInt(AfterLastUnderscore(id)).val]>>
                   ELSE ret.executions = <<>>

(* C5 as claimed: when the query fails (an error and no search result) or *)
(* the response lacks the orderedExecutionID aggregation, GetExecutions   *)
(* returns an empty sequence and a nil error.                             *)
C5_EmptyOnFailure ==
    (/\ ret.op = "GetExecutions"
     /\ (call.resp.err \/ ~call.resp.hasAgg))
    => (ret.kind = "ok" /\ ret.executions = <<>>)

RECURSIVE DecodableDocs(_)
(* The documents of the hits whose source is a JSON object, in order. *)
DecodableDocs(hits) ==
    IF hits = <<>> THEN <<>>
    ELSE IF Head(hits).json = "object"
            THEN <<Head(hits).doc>> \o DecodableDocs(Tail(hits))
            ELSE DecodableDocs(Tail(hits))

(* C6 as claimed: the result holds one entry per hit whose source decodes *)
(* and none for a hit whose source does not, and the call returns without *)
(* error.                                                                  *)
C6_UndecodableDropped ==
    (ret.op = "GetResources" /\ ~call.resp.err) =>
        /\ ret.kind = "ok"
        /\ ret.resources = DecodableDocs(call.resp.hits)

(* The parts of C9.  NewStorageManager returns a manager only after an attempt has      *)
(* succeeded, with the client set; it ends fatally only at the deadline   *)
(* and then returns no manager; the select does not wait past the         *)
(* deadline, and with no attempt succeeded by then its only way on is the *)
(* fatal one; a failed attempt is retried exactly RetryInterval later,    *)
(* and nothing is retried after a success.                                *)
C9_BootstrapState ==
    /\ (sm # NoManager) <=> (mpc = "returned")
    /\ mpc = "returned" => (sm.client = Client /\ esclient = Client /\ gpc = "done")
    /\ mpc = "fatal" => (sm = NoManager /\ clock >= Deadline)
    /\ mpc = "select" => clock <= Deadline

C9_BootstrapStep ==
    /\ (gpc = "connect" /\ gpc' = "sleep") => (esclient' = NoClient /\ wake' = clock + RetryInterval)
    /\ (gpc = "sleep" /\ gpc' # "sleep") => (gpc' = "connect" /\ clock = wake)
    /\ esclient = Client => (esclient' = Client /\ gpc' \in {"send", "done"})
    /\ (mpc = "select" /\ clock >= Deadline /\ esclient = NoClient /\ mpc' # mpc)
          => mpc' = "fatal"

(* C9: the bootstrap of NewStorageManager keeps C9_BootstrapState in      *)
(* every state and C9_BootstrapStep in every step: a manager only after a *)
(* successful attempt, a fatal end only at the deadline, retries          *)
(* RetryInterval apart until the first success.                           *)
C9_Bootstrap == []C9_BootstrapState /\ [][C9_BootstrapStep]_vars

(* A manager was returned after at least one failed attempt and a retry. *)
C9_Witness ==
    /\ mpc = "returned"
    /\ wake >= RetryInterval
    /\ sm.client = Client

(* The parts of C10.  Provisioning has run for the manager's index before a *)
(* Save indexes a document, and provisioning never re-creates or alters   *)
(* an index that exists.                                                   *)
C10_ProvisionedBeforeWrite ==
    docs # {} => sm.defaultIndex \in provisioned

C10_ProvisioningIdempotent ==
    \A i \in IndexNames :
        (createIndex(i) /\ indices[i] # "absent") => indices' = indices

(* C10 as claimed, both parts: provisioned before the first write, and   *)
(* provisioning leaves an existing index as it is.                        *)
C10_Provisioning == []C10_ProvisionedBeforeWrite /\ [][C10_ProvisioningIdempotent]_vars

====
